---------------------------- MODULE Spec2Model ----------------------------
(***************************************************************************)
(* Model of the MCP session client (functions/mcp-client.js): the session  *)
(* handshake, the login, tool discovery and tool invocation, with the      *)
(* remote service and the HTTP transport as the environment.               *)
(*                                                                         *)
(* The client has two specifications.  Spec runs one handler at a time     *)
(* (each call is awaited before the next, as the cloud functions do).      *)
(* SpecAsync lets calls overlap: every handler has exactly one suspension  *)
(* point, its await on the transport, so a handler is a Send step followed *)
(* by a Return step and other handlers may run in between.                 *)
(*                                                                         *)
(* The data processing of functions/utils.js is modelled as operators on   *)
(* JavaScript values; SpecUtils applies one of them to an input drawn from *)
(* a bounded set.  SpecRoot runs the HTTP endpoints of functions/index.js, *)
(* each request with a client of its own.                                  *)
(***************************************************************************)
EXTENDS Integers, Sequences, FiniteSets, TLC

VARIABLES
    sessionId,          \* this.sessionId
    isAuthenticated,    \* this.isAuthenticated
    now,                \* the reading of Date.now()
    inflight,           \* per slot: the request a suspended handler awaits
    last,               \* the most recently finished invocation, as its caller saw it
    call,               \* utils.js: the function applied, its argument and its result
    handlers            \* index.js: per HTTP request, the position of its handler

vars == <<sessionId, isAuthenticated, now, inflight, last, call, handlers>>

\* The state of utils.js and index.js, which the client's methods do not touch.
outside == <<call, handlers>>

----------------------------------------------------------------------------
(* Bounds of the model *)

MaxClock == 1           \* Date.now() ranges over 0..MaxClock
MaxInFlight == 2        \* handlers that may be suspended at the same time
MaxHandlers == 2        \* HTTP requests handled at the same time
MaxTxns == 2            \* transaction tuples in one scheme or bank record
MaxRecords == 2         \* scheme or bank records in one response

Slots == 1..MaxInFlight
HandlerIds == 1..MaxHandlers

\* No function of utils.js has been applied.
NoCall == [fn |-> "none"]

\* No HTTP request has arrived.
NoHandler == [pc |-> "idle"]

----------------------------------------------------------------------------
(* JavaScript values *)

NULL == "<null>"
UNDEFINED == "<undefined>"

\* The values that are falsy among those a session identifier can take.
Truthy(v) == v \notin {NULL, UNDEFINED, ""}

\* Session identifiers the remote service hands out.
SessionIds == {"s1", "s2"}

\* The value of response.headers['mcp-session-id']: absent, empty or an identifier.
HeaderValues == {UNDEFINED, ""} \cup SessionIds

PhoneNumbers == {"9999999999", "1111111111"}

ToolNames == {"fetch_net_worth", "fetch_bank_transactions"}

\* The tool names of the convenience wrappers fetchNetWorth .. fetchBankTransactions.
ToolCatalog ==
    {"fetch_net_worth", "fetch_credit_report", "fetch_epf_details",
     "fetch_mf_transactions", "fetch_bank_transactions"}

\* HTTP statuses the remote service answers with.
Statuses == {200, 204, 401, 500}

----------------------------------------------------------------------------
(* Tool-call envelopes *)

NoError == [present |-> FALSE, message |-> ""]
RemoteErrors == {[present |-> TRUE, message |-> m] : m \in {"quota exceeded", "unknown tool"}}

TextItem(t) == [type |-> "text", text |-> t]
ImageItem == [type |-> "image", text |-> ""]

Texts == {"{\"netWorthResponse\":{}}", " 42 ", "not json", ""}

\* response.data.result: absent, without content, or with a content list.
NoResult == [present |-> FALSE, hasContent |-> FALSE, content |-> <<>>]
Results ==
    {NoResult,
     [present |-> TRUE, hasContent |-> FALSE, content |-> <<>>],
     [present |-> TRUE, hasContent |-> TRUE, content |-> <<>>],
     [present |-> TRUE, hasContent |-> TRUE, content |-> <<ImageItem>>],
     [present |-> TRUE, hasContent |-> TRUE, content |-> <<ImageItem, TextItem(" 42 ")>>]}
    \cup {[present |-> TRUE, hasContent |-> TRUE, content |-> <<TextItem(t)>>] : t \in Texts}

\* response.data of a JSON-RPC answer; hasData is FALSE for an empty body.
NoData == [hasData |-> FALSE, error |-> NoError, result |-> NoResult]
Envelopes ==
    {[hasData |-> TRUE, error |-> e, result |-> r] :
        e \in {NoError} \cup RemoteErrors, r \in Results}

\* What the transport delivers: no answer at all, or a status, headers and body.
NetworkDown == [net |-> "down", status |-> 0, sessionHeader |-> UNDEFINED, data |-> NoData]
Answer(st, h, d) == [net |-> "ok", status |-> st, sessionHeader |-> h, data |-> d]

InitResponses ==
    {NetworkDown} \cup {Answer(st, h, NoData) : st \in Statuses, h \in HeaderValues}
LoginResponses ==
    {NetworkDown} \cup {Answer(st, UNDEFINED, NoData) : st \in Statuses}
RpcResponses ==
    {NetworkDown} \cup {Answer(st, UNDEFINED, NoData) : st \in Statuses}
        \cup {Answer(st, UNDEFINED, d) : st \in {200, 204}, d \in Envelopes}
NoResponse == [net |-> "none", status |-> 0, sessionHeader |-> UNDEFINED, data |-> NoData]

----------------------------------------------------------------------------
(* Requests *)

\* A request handed to axios.post: the endpoint, the JSON-RPC method and id,
\* the session identifier it carries (header or form field) and its argument.
Request(url, method, id, session, arg) ==
    [url |-> url, method |-> method, id |-> id, session |-> session, arg |-> arg]

Idle == Request("-", "idle", 0, UNDEFINED, "")

\* The session header left out of the tool call.
callToolRequestNoHeader(sid, toolName, clock) ==
    Request("base", "tools/call", clock, UNDEFINED, toolName)

initializeRequest == Request("base", "initialize", 1, UNDEFINED, "")

authenticateRequest(sid, phoneNumber) == Request("login", "login", 0, sid, phoneNumber)

listToolsRequest(sid) == Request("base", "tools/list", 2, sid, "")

callToolRequest(sid, toolName, clock) == Request("base", "tools/call", clock, sid, toolName)

----------------------------------------------------------------------------
(* The transport (axios.post with its default validateStatus) *)

\* The promise resolves for a 2xx answer and rejects otherwise.
Resolves(resp) == resp.net = "ok" /\ resp.status >= 200 /\ resp.status < 300

\* error.message of the rejection.
AxiosErrorMessage(resp) ==
    IF resp.net = "ok"
    THEN <<"Request failed with status code ", ToString(resp.status)>>
    ELSE <<"Network Error">>

\* A second attempt after an answer that is not a success.
AttemptsRetryOnFailure(request, resp) ==
    IF Resolves(resp) THEN <<request>> ELSE <<request, request>>

\* The requests one invocation hands to axios.post: each handler has a single
\* axios.post and no loop around it, so one request whatever the answer.
Attempts(request, resp) == <<request>>

----------------------------------------------------------------------------
(* Values and outcomes of a handler *)

\* What a handler returns to its caller.
Value(kind, text, result) == [kind |-> kind, text |-> text, result |-> result]
NoValue == Value("none", "", NoResult)

\* JSON.parse on the texts of the model: the parsed value, or a SyntaxError.
JSONParse(text) ==
    CASE text = "{\"netWorthResponse\":{}}" -> [ok |-> TRUE, json |-> "object{netWorthResponse}"]
      [] text = " 42 " -> [ok |-> TRUE, json |-> "number 42"]
      [] text = "{\"creditReports\":[{}]}" -> [ok |-> TRUE, json |-> "object{creditReports:[{}]}"]
      [] OTHER -> [ok |-> FALSE, json |-> ""]

\* The outcome of a handler body: the fields of the client after it, whether it
\* returned or threw, the Error delivered to the caller (message, as the parts
\* of the template literal), the message of the error it caught and logged.
Outcome(sid, auth, how, error, caught, value) ==
    [sessionId |-> sid, isAuthenticated |-> auth, outcome |-> how,
     error |-> error, caught |-> caught, value |-> value]

----------------------------------------------------------------------------
(* The handler bodies, as functions of the client's fields and the answer *)

\* initialize() without the test of the header it stored.
initializeBodyNoHeaderTest(sid, auth, resp) ==
    IF Resolves(resp)
    THEN Outcome(resp.sessionHeader, auth, "returned", <<>>, <<>>,
                 Value("data", "", NoResult))
    ELSE Outcome(sid, auth, "threw", <<"MCP initialization failed">>,
                 AxiosErrorMessage(resp), NoValue)

\* initialize(): the session identifier is taken from the response header and
\* stored before it is tested; every failure is caught and replaced by one Error.
initializeBody(sid, auth, resp) ==
    IF Resolves(resp)
    THEN IF Truthy(resp.sessionHeader)
         THEN Outcome(resp.sessionHeader, auth, "returned", <<>>, <<>>,
                      Value("data", "", NoResult))
         ELSE Outcome(resp.sessionHeader, auth, "threw",
                      <<"MCP initialization failed">>,
                      <<"No session ID received from MCP server">>, NoValue)
    ELSE Outcome(sid, auth, "threw", <<"MCP initialization failed">>,
                 AxiosErrorMessage(resp), NoValue)

\* The guard as a comparison with null instead of a truthiness test.
authenticateGuardNullOnly(sid) == sid # NULL

\* authenticate(): the guard that precedes the login request.
authenticateGuard(sid) == Truthy(sid)

\* authenticate() when the guard fails: the Error thrown inside the try block is
\* caught by the handler's own catch and replaced.
authenticateNoSession(sid, auth) ==
    Outcome(sid, auth, "threw", <<"MCP authentication failed">>,
            <<"Session ID not available. Call initialize() first.">>, NoValue)

\* The status test on a login answer that axios accepted.
authenticateAccepts(status) == status = 200

\* authenticate() setting the flag before it tests the status.
authenticateBodyFlagFirst(sid, auth, resp) ==
    IF Resolves(resp)
    THEN IF authenticateAccepts(resp.status)
         THEN Outcome(sid, TRUE, "returned", <<>>, <<>>, Value("true", "", NoResult))
         ELSE Outcome(sid, TRUE, "threw", <<"MCP authentication failed">>,
                      <<"Authentication failed with status: ", ToString(resp.status)>>,
                      NoValue)
    ELSE Outcome(sid, auth, "threw", <<"MCP authentication failed">>,
                 AxiosErrorMessage(resp), NoValue)

\* authenticate() once the login request has been answered.
authenticateBody(sid, auth, resp) ==
    IF Resolves(resp)
    THEN IF authenticateAccepts(resp.status)
         THEN Outcome(sid, TRUE, "returned", <<>>, <<>>, Value("true", "", NoResult))
         ELSE Outcome(sid, auth, "threw", <<"MCP authentication failed">>,
                      <<"Authentication failed with status: ", ToString(resp.status)>>,
                      NoValue)
    ELSE Outcome(sid, auth, "threw", <<"MCP authentication failed">>,
                 AxiosErrorMessage(resp), NoValue)

\* listTools() refusing a client that has not logged in.
listToolsBodyRequiresAuth(sid, auth, resp) ==
    IF ~auth
    THEN Outcome(sid, auth, "threw", <<"Failed to list MCP tools">>,
                 <<"Not authenticated">>, NoValue)
    ELSE IF Resolves(resp)
    THEN IF resp.data.hasData
         THEN Outcome(sid, auth, "returned", <<>>, <<>>,
                      Value("result", "", resp.data.result))
         ELSE Outcome(sid, auth, "threw", <<"Failed to list MCP tools">>,
                      <<"Cannot read properties of undefined (reading 'result')">>, NoValue)
    ELSE Outcome(sid, auth, "threw", <<"Failed to list MCP tools">>,
                 AxiosErrorMessage(resp), NoValue)

\* listTools(): response.data.result, or one Error for every failure.
listToolsBody(sid, auth, resp) ==
    IF Resolves(resp)
    THEN IF resp.data.hasData
         THEN Outcome(sid, auth, "returned", <<>>, <<>>,
                      Value("result", "", resp.data.result))
         ELSE Outcome(sid, auth, "threw", <<"Failed to list MCP tools">>,
                      <<"Cannot read properties of undefined (reading 'result')">>, NoValue)
    ELSE Outcome(sid, auth, "threw", <<"Failed to list MCP tools">>,
                 AxiosErrorMessage(resp), NoValue)

\* callTool() parsing the first textual item wherever it stands in the list.
callToolContentAnyText(result) ==
    LET texts == SelectSeq(result.content, LAMBDA c : c.type = "text" /\ c.text # "") IN
    IF result.present /\ result.hasContent /\ Len(texts) > 0
    THEN IF JSONParse(texts[1].text).ok
         THEN Value("parsed", JSONParse(texts[1].text).json, NoResult)
         ELSE Value("raw", "", result)
    ELSE Value("raw", "", result)

\* callTool(): what is returned for an envelope without an error.
callToolContent(result) ==
    IF result.present /\ result.hasContent /\ Len(result.content) > 0
    THEN LET content == result.content[1] IN
         IF content.type = "text" /\ content.text # ""
         THEN IF JSONParse(content.text).ok
              THEN Value("parsed", JSONParse(content.text).json, NoResult)
              ELSE Value("raw", "", result)
         ELSE Value("raw", "", result)
    ELSE Value("raw", "", result)

\* callTool() looking at the error only when the envelope has no result.
callToolBodyResultFirst(sid, auth, resp) ==
    IF ~Resolves(resp)
    THEN Outcome(sid, auth, "threw",
                 <<"MCP tool call failed: ">> \o AxiosErrorMessage(resp),
                 AxiosErrorMessage(resp), NoValue)
    ELSE IF ~resp.data.hasData
    THEN Outcome(sid, auth, "threw",
                 <<"MCP tool call failed: ",
                   "Cannot read properties of undefined (reading 'error')">>,
                 <<"Cannot read properties of undefined (reading 'error')">>, NoValue)
    ELSE IF resp.data.error.present /\ ~resp.data.result.present
    THEN Outcome(sid, auth, "threw",
                 <<"MCP tool call failed: ", resp.data.error.message>>,
                 <<resp.data.error.message>>, NoValue)
    ELSE Outcome(sid, auth, "returned", <<>>, <<>>, callToolContent(resp.data.result))

\* callTool(): an error envelope is thrown, caught with every other failure and
\* rethrown with the caught message appended to a fixed prefix.
callToolBody(sid, auth, resp) ==
    IF ~Resolves(resp)
    THEN Outcome(sid, auth, "threw",
                 <<"MCP tool call failed: ">> \o AxiosErrorMessage(resp),
                 AxiosErrorMessage(resp), NoValue)
    ELSE IF ~resp.data.hasData
    THEN Outcome(sid, auth, "threw",
                 <<"MCP tool call failed: ",
                   "Cannot read properties of undefined (reading 'error')">>,
                 <<"Cannot read properties of undefined (reading 'error')">>, NoValue)
    ELSE IF resp.data.error.present
    THEN Outcome(sid, auth, "threw",
                 <<"MCP tool call failed: ", resp.data.error.message>>,
                 <<resp.data.error.message>>, NoValue)
    ELSE Outcome(sid, auth, "returned", <<>>, <<>>, callToolContent(resp.data.result))

----------------------------------------------------------------------------
(* State *)

Fields(sid, auth) == [sessionId |-> sid, isAuthenticated |-> auth]

\* The record of a finished invocation: what was called and with which argument
\* (the phone number or the tool name), the requests it handed
\* to the transport, the answer it got, the client's fields before it finished,
\* and what its caller received.
Finished(op, arg, sent, resp, o) ==
    [op |-> op, arg |-> arg, sent |-> sent, resp |-> resp,
     before |-> Fields(sessionId, isAuthenticated),
     outcome |-> o.outcome, error |-> o.error, caught |-> o.caught, value |-> o.value]

NothingYet ==
    [op |-> "none", arg |-> "", sent |-> <<>>, resp |-> NoResponse,
     before |-> Fields(NULL, FALSE),
     outcome |-> "none", error |-> <<>>, caught |-> <<>>, value |-> NoValue]

\* new MCPClient(baseUrl)
Init ==
    /\ sessionId = NULL
    /\ isAuthenticated = FALSE
    /\ now \in 0..MaxClock
    /\ inflight = [s \in Slots |-> Idle]
    /\ last = NothingYet
    /\ call = NoCall
    /\ handlers = [h \in HandlerIds |-> NoHandler]

\* The handler's effect on the client and on what its caller sees.
Complete(op, arg, sent, resp, o) ==
    /\ sessionId' = o.sessionId
    /\ isAuthenticated' = o.isAuthenticated
    /\ last' = Finished(op, arg, sent, resp, o)
    /\ UNCHANGED outside

\* The clock advances between calls.
Tick ==
    /\ now < MaxClock
    /\ now' = now + 1
    /\ UNCHANGED <<sessionId, isAuthenticated, inflight, last>>
    /\ UNCHANGED outside

----------------------------------------------------------------------------
(* Spec: every call is awaited before the next one is made *)

Initialize ==
    \E resp \in InitResponses :
        /\ Complete("initialize", "", Attempts(initializeRequest, resp), resp,
                    initializeBody(sessionId, isAuthenticated, resp))
        /\ UNCHANGED <<now, inflight>>

AuthenticateNoSession(phoneNumber) ==
    /\ ~authenticateGuard(sessionId)
    /\ Complete("authenticate", phoneNumber, <<>>, NoResponse,
                authenticateNoSession(sessionId, isAuthenticated))
    /\ UNCHANGED <<now, inflight>>

Authenticate(phoneNumber) ==
    /\ authenticateGuard(sessionId)
    /\ \E resp \in LoginResponses :
        Complete("authenticate", phoneNumber,
                 Attempts(authenticateRequest(sessionId, phoneNumber), resp), resp,
                 authenticateBody(sessionId, isAuthenticated, resp))
    /\ UNCHANGED <<now, inflight>>

ListTools ==
    \E resp \in RpcResponses :
        /\ Complete("listTools", "", Attempts(listToolsRequest(sessionId), resp), resp,
                    listToolsBody(sessionId, isAuthenticated, resp))
        /\ UNCHANGED <<now, inflight>>

CallTool(toolName) ==
    \E resp \in RpcResponses :
        /\ Complete("callTool", toolName,
                    Attempts(callToolRequest(sessionId, toolName, now), resp), resp,
                    callToolBody(sessionId, isAuthenticated, resp))
        /\ UNCHANGED <<now, inflight>>

Next ==
    \/ Tick
    \/ Initialize
    \/ \E p \in PhoneNumbers : AuthenticateNoSession(p)
    \/ \E p \in PhoneNumbers : Authenticate(p)
    \/ ListTools
    \/ \E t \in ToolCatalog : CallTool(t)

Spec == Init /\ [][Next]_vars

----------------------------------------------------------------------------
(* SpecAsync: calls on one client may overlap *)

\* A handler that resumes: its effect on the client, and the caller's view of
\* it without the transport's details.
Resume(op, o) ==
    /\ sessionId' = o.sessionId
    /\ isAuthenticated' = o.isAuthenticated
    /\ last' = [NothingYet EXCEPT !.op = op, !.outcome = o.outcome, !.error = o.error]
    /\ UNCHANGED outside

Send(s, request) ==
    /\ inflight[s] = Idle
    /\ inflight' = [inflight EXCEPT ![s] = request]
    /\ UNCHANGED <<sessionId, isAuthenticated, now, last>>
    /\ UNCHANGED outside

InitializeSend(s) == Send(s, initializeRequest)

InitializeReturn(s) ==
    /\ inflight[s].method = "initialize"
    /\ \E resp \in InitResponses :
        Resume("initialize", initializeBody(sessionId, isAuthenticated, resp))
    /\ inflight' = [inflight EXCEPT ![s] = Idle]
    /\ UNCHANGED now

AuthenticateSend(s, phoneNumber) ==
    /\ authenticateGuard(sessionId)
    /\ Send(s, authenticateRequest(sessionId, phoneNumber))

AuthenticateReturn(s) ==
    /\ inflight[s].method = "login"
    /\ \E resp \in LoginResponses :
        Resume("authenticate", authenticateBody(sessionId, isAuthenticated, resp))
    /\ inflight' = [inflight EXCEPT ![s] = Idle]
    /\ UNCHANGED now

ListToolsSend(s) == Send(s, listToolsRequest(sessionId))

ListToolsReturn(s) ==
    /\ inflight[s].method = "tools/list"
    /\ \E resp \in RpcResponses :
        Resume("listTools", listToolsBody(sessionId, isAuthenticated, resp))
    /\ inflight' = [inflight EXCEPT ![s] = Idle]
    /\ UNCHANGED now

CallToolSend(s, toolName) == Send(s, callToolRequest(sessionId, toolName, now))

CallToolReturn(s) ==
    /\ inflight[s].method = "tools/call"
    /\ \E resp \in RpcResponses :
        Resume("callTool", callToolBody(sessionId, isAuthenticated, resp))
    /\ inflight' = [inflight EXCEPT ![s] = Idle]
    /\ UNCHANGED now

NextAsync ==
    \/ Tick
    \/ \E s \in Slots : InitializeSend(s)
    \/ \E s \in Slots : InitializeReturn(s)
    \/ \E p \in PhoneNumbers : AuthenticateNoSession(p)
    \/ \E s \in Slots, p \in PhoneNumbers : AuthenticateSend(s, p)
    \/ \E s \in Slots : AuthenticateReturn(s)
    \/ \E s \in Slots : ListToolsSend(s)
    \/ \E s \in Slots : ListToolsReturn(s)
    \/ \E s \in Slots, t \in ToolNames : CallToolSend(s, t)
    \/ \E s \in Slots : CallToolReturn(s)

SpecAsync == Init /\ [][NextAsync]_vars

----------------------------------------------------------------------------
(* Properties of the session client *)

Range(seq) == {seq[i] : i \in DOMAIN seq}

\* A status the HTTP protocol counts as success.
IsSuccessStatus(st) == st \in 200..299

\* C1: callTool and listTools called while sessionId is unset throw and hand no
\* request to the transport.
C1_ToolCallWithoutSessionSendsNothing ==
    (last.op \in {"callTool", "listTools"} /\ ~Truthy(last.before.sessionId))
        => (last.outcome = "threw" /\ last.sent = <<>>)

C3_SessionIdImmutableOnceSet ==
    [][Truthy(sessionId) => sessionId' = sessionId]_vars

\* C4: isAuthenticated starts false and every change of it is from false to
\* true in a step in which authenticate returned; a true flag is never reset, so
\* the change happens at most once.
C4_AuthenticatedOnlyByLogin ==
    /\ isAuthenticated = FALSE
    /\ [][(isAuthenticated' # isAuthenticated)
            => /\ isAuthenticated = FALSE
               /\ isAuthenticated' = TRUE
               /\ last'.op = "authenticate"
               /\ last'.outcome = "returned"]_vars
    /\ [][(last'.op = "authenticate" /\ last'.outcome = "threw")
            => isAuthenticated' = isAuthenticated]_vars

\* C4 witness: the flag is true and survived a failed initialize that followed
\* the login.
C4_Witness ==
    /\ isAuthenticated = TRUE
    /\ last.before.isAuthenticated = TRUE
    /\ last.op = "initialize"
    /\ last.outcome = "threw"

\* C5: initialize returns exactly when the transport delivered an answer with a
\* success status and a non-empty session header; then sessionId is that header
\* value; in every other case it throws the initialization error.
C5_InitializeSucceedsIff ==
    last.op = "initialize" =>
        /\ last.outcome = "returned"
            <=> /\ last.resp.net = "ok"
                /\ IsSuccessStatus(last.resp.status)
                /\ last.resp.sessionHeader \notin {UNDEFINED, ""}
        /\ last.outcome = "returned"
            => /\ sessionId = last.resp.sessionHeader
               /\ sessionId \in SessionIds
        /\ last.outcome # "returned"
            => /\ last.outcome = "threw"
               /\ last.error = <<"MCP initialization failed">>

\* C5 witness: initialize returned for a 2xx answer other than 200 and the
\* client holds the identifier of that answer, replacing the earlier "s1".
C5_Witness ==
    /\ last.op = "initialize"
    /\ last.outcome = "returned"
    /\ last.resp.status = 204
    /\ last.resp.sessionHeader = "s2"
    /\ last.before.sessionId = "s1"
    /\ sessionId = "s2"

\* C6: on a client with a session, authenticate returns and sets the flag for
\* every login answer with a 2xx status.
C6_AuthenticateAcceptsEvery2xx ==
    (/\ last.op = "authenticate"
     /\ Truthy(last.before.sessionId)
     /\ last.resp.net = "ok"
     /\ IsSuccessStatus(last.resp.status))
        => (last.outcome = "returned" /\ isAuthenticated = TRUE)

\* C7: when the login endpoint answers with a non-success status, the error
\* authenticate delivers to its caller names that status.
C7_AuthenticationErrorCarriesStatus ==
    (/\ last.op = "authenticate"
     /\ last.resp.net = "ok"
     /\ ~IsSuccessStatus(last.resp.status))
        => /\ last.outcome = "threw"
           /\ ToString(last.resp.status) \in Range(last.error)

\* The cause of a failed authenticate: called out of sequence, the transport
\* failed, or the login endpoint refused with a non-success status.
FailureCause(inv) ==
    IF inv.sent = <<>> THEN "no session"
    ELSE IF inv.resp.net = "down" THEN "remote down"
    ELSE IF ~IsSuccessStatus(inv.resp.status) THEN "bad credentials"
    ELSE "other"

\* C8: two failed authenticate calls whose causes differ among no session,
\* remote down and bad credentials deliver different errors to their callers.
C8_AuthenticateFailuresDistinct ==
    [][(/\ last.op = "authenticate" /\ last.outcome = "threw"
        /\ last'.op = "authenticate" /\ last'.outcome = "threw"
        /\ FailureCause(last) # "other"
        /\ FailureCause(last') # "other"
        /\ FailureCause(last) # FailureCause(last'))
            => last'.error # last.error]_vars

\* C9: no two tool-call requests in flight at the same time carry the same
\* JSON-RPC id.
C9_InFlightIdsUnique ==
    \A s1, s2 \in Slots :
        (/\ s1 # s2
         /\ inflight[s1].method = "tools/call"
         /\ inflight[s2].method = "tools/call")
            => inflight[s1].id # inflight[s2].id

\* C10: when the envelope of a tool call carries an error, callTool throws,
\* returns no value, and the message of the error it throws contains the remote
\* message, with or without a result in the envelope.
C10_ErrorEnvelopeThrowsRemoteMessage ==
    (/\ last.op = "callTool"
     /\ last.resp.net = "ok"
     /\ IsSuccessStatus(last.resp.status)
     /\ last.resp.data.hasData
     /\ last.resp.data.error.present)
        => /\ last.outcome = "threw"
           /\ last.value = NoValue
           /\ last.resp.data.error.message \in Range(last.error)

\* C10 witness: callTool threw the remote message for an envelope that carried
\* both an error and a result whose text parses.
C10_Witness ==
    /\ last.op = "callTool"
    /\ last.resp.data.error.present
    /\ last.resp.data.error.message = "quota exceeded"
    /\ last.resp.data.result.present
    /\ Len(last.resp.data.result.content) = 1
    /\ last.resp.data.result.content[1] = TextItem(" 42 ")
    /\ last.outcome = "threw"
    /\ last.error = <<"MCP tool call failed: ", "quota exceeded">>

\* The texts of the model that are JSON documents.
JsonTexts == {"{\"netWorthResponse\":{}}", " 42 "}

\* C11: for an envelope without an error callTool returns, and what it returns
\* is decided by the first content item alone: the parsed document if the item
\* is textual and its text is JSON, the raw result if it is textual and not
\* JSON, the raw result if it is not textual or there is no item.
C11_ContentOfFirstItem ==
    (/\ last.op = "callTool"
     /\ last.resp.net = "ok"
     /\ IsSuccessStatus(last.resp.status)
     /\ last.resp.data.hasData
     /\ ~last.resp.data.error.present)
        => LET result == last.resp.data.result
               hasItem == result.present /\ result.hasContent /\ Len(result.content) >= 1
           IN  /\ last.outcome = "returned"
               /\ IF hasItem /\ result.content[1].type = "text"
                     /\ result.content[1].text \in JsonTexts
                  THEN /\ last.value.kind = "parsed"
                       /\ last.value.text = JSONParse(result.content[1].text).json
                       /\ last.value.text # ""
                  ELSE last.value = Value("raw", "", result)

\* C11 witness: callTool returned the raw result for a first item that is
\* textual and not JSON.
C11_Witness ==
    /\ last.op = "callTool"
    /\ last.outcome = "returned"
    /\ last.resp.data.result.present
    /\ Len(last.resp.data.result.content) = 1
    /\ last.resp.data.result.content[1] = TextItem("not json")
    /\ last.value = Value("raw", "", last.resp.data.result)

\* C12: an invocation of initialize, authenticate, listTools or callTool (the
\* fetch wrappers are callTool with a catalogue name) hands at most one request
\* to the transport, and when the answer to it is not a success the invocation
\* throws without another request.
C12_NoRetry ==
    /\ Len(last.sent) <= 1
    /\ (/\ last.sent # <<>>
        /\ ~(last.resp.net = "ok" /\ IsSuccessStatus(last.resp.status)))
            => last.outcome = "threw"

\* C12 witness: a fetch wrapper met a network failure, threw, and had sent one
\* request.
C12_Witness ==
    /\ last.op = "callTool"
    /\ last.arg = "fetch_epf_details"
    /\ last.resp.net = "down"
    /\ last.outcome = "threw"
    /\ Len(last.sent) = 1

\* C13: the request of every listTools and callTool carries, as its session
\* header, the value sessionId has when the request is sent.
C13_RequestCarriesSessionId ==
    last.op \in {"listTools", "callTool"}
        => /\ Len(last.sent) = 1
           /\ last.sent[1].url = "base"
           /\ last.sent[1].session = last.before.sessionId

\* C13 witness: after a second handshake a tool call carried the identifier of
\* that handshake.
C13_Witness ==
    /\ last.op = "callTool"
    /\ last.before.sessionId = "s2"
    /\ Len(last.sent) = 1
    /\ last.sent[1].session = "s2"
    /\ last.sent[1].method = "tools/call"

\* C14: on a client with a session and without a login, callTool and listTools
\* send their request and return what the service answers: an answer that is a
\* success without an error envelope makes them return.
C14_NoLoginNeededForTools ==
    (/\ last.op \in {"callTool", "listTools"}
     /\ Truthy(last.before.sessionId)
     /\ last.before.isAuthenticated = FALSE)
        => /\ Len(last.sent) = 1
           /\ (/\ last.resp.net = "ok"
               /\ IsSuccessStatus(last.resp.status)
               /\ last.resp.data.hasData
               /\ ~last.resp.data.error.present)
                  => /\ last.outcome = "returned"
                     /\ last.op = "listTools"
                            => last.value = Value("result", "", last.resp.data.result)

\* C14 witness: listTools returned the catalogue to a client that had a session
\* and had not logged in.
C14_Witness ==
    /\ last.op = "listTools"
    /\ last.before.sessionId = "s1"
    /\ last.before.isAuthenticated = FALSE
    /\ isAuthenticated = FALSE
    /\ last.outcome = "returned"
    /\ last.value.result.present

----------------------------------------------------------------------------
(* JavaScript values of utils.js *)

\* Scalars carry their type; an object is a record of its own properties and an
\* array is a sequence.  A number is n + nanos / 1e9 with 0 <= nanos < 1e9, so
\* that the amounts of this program are represented exactly.
NanosPerUnit == 1000000000

JSUndefined == [t |-> "undefined"]
JSNull == [t |-> "null"]
NaN == [t |-> "NaN"]
NumF(n, f) == [t |-> "number", n |-> n, nanos |-> f]
Num(n) == NumF(n, 0)
Str(s) == [t |-> "string", s |-> s]

\* o.f
Field(o, f) == IF f \in DOMAIN o THEN o[f] ELSE JSUndefined

\* !v, for a scalar, undefined or an object
IsFalsy(v) == v \in {JSUndefined, JSNull, NaN, Num(0), Str("")}

\* The decimal numerals among the strings of the model, and their values.
NumeralStrings ==
    {"-100", "-50", "0", "5", "40", "100", "500", "750", "1000", "500000", "1500000"}
NumeralValue(s) ==
    CASE s = "-100" -> -100 [] s = "-50" -> -50
      [] s = "0" -> 0 [] s = "5" -> 5 [] s = "40" -> 40 [] s = "100" -> 100
      [] s = "500" -> 500 [] s = "750" -> 750 [] s = "1000" -> 1000
      [] s = "500000" -> 500000 [] s = "1500000" -> 1500000

\* parseFloat(v): a number is itself, a numeral is its value, all else is NaN.
parseFloat(v) ==
    IF v.t = "number" THEN v
    ELSE IF v.t = "string" /\ v.s \in NumeralStrings THEN Num(NumeralValue(v.s))
    ELSE NaN

\* parseInt(v): as parseFloat on the whole numbers and numerals of the model.
parseInt(v) == parseFloat(v)

\* o?.f1?.f2 ... : undefined as soon as a step is missing
Chain(o, path) ==
    LET at[i \in 0..Len(path)] == IF i = 0 THEN o ELSE Field(at[i - 1], path[i])
    IN  at[Len(path)]

\* v || 0
OrZero(v) == IF IsFalsy(v) THEN Num(0) ELSE v

\* a + b on numbers
Plus(a, b) ==
    IF NaN \in {a, b} THEN NaN
    ELSE LET f == a.nanos + b.nanos
         IN  NumF(a.n + b.n + (f \div NanosPerUnit), f % NanosPerUnit)

\* a - b on numbers
Minus(a, b) ==
    IF NaN \in {a, b} THEN NaN
    ELSE LET f == a.nanos - b.nanos
         IN  NumF(a.n - b.n + (f \div NanosPerUnit), f % NanosPerUnit)

\* a > b on numbers: false when either is NaN
Greater(a, b) ==
    /\ NaN \notin {a, b}
    /\ \/ a.n > b.n
       \/ a.n = b.n /\ a.nanos > b.nanos

\* The property name a value makes when it indexes an object.
KeyOf(v) ==
    IF v.t = "string" THEN v.s
    ELSE IF v.t = "number" /\ v.nanos = 0 THEN ToString(v.n)
    ELSE v.t

\* {} and the assignment acc[k] = v
EmptyObject == [k \in {} |-> JSUndefined]
Assign(acc, k, v) == [x \in DOMAIN acc \cup {k} |-> IF x = k THEN v ELSE acc[x]]

\* What a function does: it returns a value or throws.
Returns(v) == [threw |-> FALSE, value |-> v]
Throws == [threw |-> TRUE]

\* The concatenation of a sequence of sequences.
RECURSIVE Flatten(_)
Flatten(ss) == IF ss = <<>> THEN <<>> ELSE Head(ss) \o Flatten(Tail(ss))

\* v / 1000000000 for a whole number v
DivNanos(v) == NumF(v.n \div NanosPerUnit, v.n % NanosPerUnit)

----------------------------------------------------------------------------
(* utils.js: currency *)

\* currencyToNumber(currencyObj)
currencyToNumber(currencyObj) ==
    IF IsFalsy(currencyObj) \/ IsFalsy(Field(currencyObj, "units"))
    THEN Num(0)
    ELSE Plus(OrZero(parseFloat(Field(currencyObj, "units"))),
              DivNanos(OrZero(parseFloat(Field(currencyObj, "nanos")))))

\* formatCurrency(amount, currencyCode): the string Intl.NumberFormat makes of
\* the amount, kept as the amount and the currency it was made from.
\* Intl.NumberFormat throws a RangeError for a currency that is not three letters.
CurrencyCodes == {"INR", "USD"}
formatCurrency(amount, currencyCode) ==
    IF KeyOf(currencyCode) \in CurrencyCodes
    THEN Returns([t |-> "string", formatted |-> amount, currency |-> currencyCode])
    ELSE Throws

----------------------------------------------------------------------------
(* utils.js: net worth, credit report, provident fund *)

\* a || b
Or(a, b) == IF IsFalsy(a) THEN b ELSE a

\* o.f || fallback, for a field that holds an array or an object when present
FieldOr(o, f, fallback) == IF f \in DOMAIN o THEN o[f] ELSE fallback

\* processNetWorthData(response)
processNetWorthData(response) ==
    IF IsFalsy(response) \/ "netWorthResponse" \notin DOMAIN response
    THEN Returns([totalNetWorth |-> Num(0), currency |-> Str("INR"), assets |-> <<>>,
                  error |-> Str("No net worth data available")])
    ELSE LET netWorthData == response.netWorthResponse
             totalNetWorth == currencyToNumber(Field(netWorthData, "totalNetWorthValue"))
             currency == Or(Chain(netWorthData, <<"totalNetWorthValue", "currencyCode">>),
                            Str("INR"))
             assetValues == FieldOr(netWorthData, "assetValues", <<>>)
         IN  IF formatCurrency(totalNetWorth, currency).threw
             THEN Throws
             ELSE Returns(
                 [totalNetWorth |-> totalNetWorth,
                  formattedTotalNetWorth |-> formatCurrency(totalNetWorth, currency).value,
                  currency |-> currency,
                  assets |-> [i \in 1..Len(assetValues) |->
                      [type |-> Field(assetValues[i], "netWorthAttribute"),
                       value |-> currencyToNumber(Field(assetValues[i], "value")),
                       formattedValue |->
                           formatCurrency(currencyToNumber(Field(assetValues[i], "value")),
                                          currency).value]],
                  mutualFunds |-> FieldOr(Field(response, "mfSchemeAnalytics"),
                                          "schemeAnalytics", <<>>),
                  accountDetails |-> FieldOr(Field(response, "accountDetailsBulkResponse"),
                                             "accountDetailsMap", EmptyObject)])

\* The record made of one entry of creditAccountDetails.
creditAccount(account) ==
    [id |-> Field(account, "identificationNumber"),
     subscriber |-> Field(account, "subscriberName"),
     accountType |-> Field(account, "accountType"),
     creditLimit |-> OrZero(parseFloat(Field(account, "creditLimitAmount"))),
     currentBalance |-> OrZero(parseFloat(Field(account, "currentBalance"))),
     paymentRating |-> Field(account, "paymentRating"),
     accountStatus |-> Field(account, "accountStatus"),
     openDate |-> Field(account, "openDate")]

\* The rest of processCreditData once creditReports[0] exists.
creditReport(report) ==
    IF "creditReportData" \notin DOMAIN report
    THEN Throws
    ELSE LET creditData == report.creditReportData
             score == Chain(creditData, <<"score", "bureauScore">>)
             details == FieldOr(Field(creditData, "creditAccount"),
                                "creditAccountDetails", <<>>)
             summary == Chain(creditData, <<"creditAccount", "creditAccountSummary">>)
         IN  Returns(
                 [creditScore |-> IF IsFalsy(score) THEN JSNull ELSE parseInt(score),
                  accounts |-> [i \in 1..Len(details) |-> creditAccount(details[i])],
                  totalAccounts |->
                      OrZero(Chain(summary, <<"account", "creditAccountTotal">>)),
                  activeAccounts |->
                      OrZero(Chain(summary, <<"account", "creditAccountActive">>)),
                  outstandingBalance |->
                      FieldOr(summary, "totalOutstandingBalance", EmptyObject)])

\* The fallback of processCreditData
NoCreditData ==
    [creditScore |-> JSNull, accounts |-> <<>>, error |-> Str("No credit data available")]

\* processCreditData that reads creditReports[0] of an empty list as well.
processCreditDataAnyLength(response) ==
    IF IsFalsy(response) \/ "creditReports" \notin DOMAIN response
    THEN Returns(NoCreditData)
    ELSE IF response.creditReports = <<>> THEN Throws
    ELSE creditReport(response.creditReports[1])

\* processCreditData(response)
processCreditData(response) ==
    IF \/ IsFalsy(response)
       \/ "creditReports" \notin DOMAIN response
       \/ Len(response.creditReports) = 0
    THEN Returns(NoCreditData)
    ELSE creditReport(response.creditReports[1])

\* The reducer that keeps the balance of the latest establishment only.
epfEmployerSumLast(sum, est) ==
    OrZero(parseFloat(Chain(est, <<"pf_balance", "employer_share", "balance">>)))

\* The reducer of est_details: sum + (parseFloat(balance) || 0)
epfEmployerSum(sum, est) ==
    Plus(sum, OrZero(parseFloat(Chain(est, <<"pf_balance", "employer_share", "balance">>))))

\* processEPFData(response)
processEPFData(response) ==
    IF \/ IsFalsy(response)
       \/ "uanAccounts" \notin DOMAIN response
       \/ Len(response.uanAccounts) = 0
    THEN Returns([totalBalance |-> Num(0), employeeShare |-> Num(0),
                  employerShare |-> Num(0), error |-> Str("No EPF data available")])
    ELSE IF "rawDetails" \notin DOMAIN response.uanAccounts[1]
    THEN Throws
    ELSE LET epfData == response.uanAccounts[1].rawDetails
             overallBalance == Field(epfData, "overall_pf_balance")
         IN  Returns(
                 [totalBalance |->
                      OrZero(parseFloat(Field(overallBalance, "current_pf_balance"))),
                  employeeShare |->
                      OrZero(parseFloat(Chain(overallBalance,
                                              <<"employee_share_total", "balance">>))),
                  employerShare |->
                      IF "est_details" \in DOMAIN epfData
                      THEN LET sum[i \in 0..Len(epfData.est_details)] ==
                                   IF i = 0 THEN Num(0)
                                   ELSE epfEmployerSum(sum[i - 1], epfData.est_details[i])
                           IN  sum[Len(epfData.est_details)]
                      ELSE Num(0),
                  pensionBalance |->
                      OrZero(parseFloat(Field(overallBalance, "pension_balance"))),
                  employerDetails |-> FieldOr(epfData, "est_details", <<>>)])

----------------------------------------------------------------------------
(* utils.js: mutual fund transactions *)

\* The record pushed, with every order type but 2 taken as a purchase.
mfTransactionBuyUnlessTwo(scheme, txn) ==
    [isin |-> Field(scheme, "isin"),
     folioId |-> Field(scheme, "folioId"),
     type |-> IF txn[1] = Num(2) THEN Str("SELL") ELSE Str("BUY"),
     date |-> txn[2],
     amount |-> txn[5],
     units |-> txn[4],
     nav |-> txn[3],
     schemeName |-> Field(scheme, "schemeName")]

\* The record pushed for one tuple [orderType, date, nav, units, amount] of a scheme.
mfTransaction(scheme, txn) ==
    [isin |-> Field(scheme, "isin"),
     folioId |-> Field(scheme, "folioId"),
     type |-> IF txn[1] = Num(1) THEN Str("BUY") ELSE Str("SELL"),
     date |-> txn[2],
     amount |-> txn[5],
     units |-> txn[4],
     nav |-> txn[3],
     schemeName |-> Field(scheme, "schemeName")]

\* The nested forEach: every tuple of every scheme, in input order.
mfFlatten(schemes) ==
    Flatten([i \in 1..Len(schemes) |->
                [j \in 1..Len(schemes[i].txns) |->
                    mfTransaction(schemes[i], schemes[i].txns[j])]])

\* The reducer with totals that do not go below zero.
mfGroupClamped(acc, tx) ==
    LET k == KeyOf(tx.isin)
        old == IF k \in DOMAIN acc THEN acc[k]
               ELSE [isin |-> tx.isin, schemeName |-> tx.schemeName,
                     transactions |-> <<>>,
                     totalInvested |-> Num(0), totalUnits |-> Num(0)]
        invested == IF tx.type = Str("BUY") THEN Plus(old.totalInvested, tx.amount)
                    ELSE Minus(old.totalInvested, tx.amount)
        units == IF tx.type = Str("BUY") THEN Plus(old.totalUnits, tx.units)
                 ELSE Minus(old.totalUnits, tx.units)
    IN  Assign(acc, k,
               [old EXCEPT !.transactions = Append(@, tx),
                           !.totalInvested = IF invested.n < 0 THEN Num(0) ELSE invested,
                           !.totalUnits = IF units.n < 0 THEN Num(0) ELSE units])

\* The reducer that groups the flattened transactions by isin.
mfGroup(acc, tx) ==
    LET k == KeyOf(tx.isin)
        old == IF k \in DOMAIN acc THEN acc[k]
               ELSE [isin |-> tx.isin, schemeName |-> tx.schemeName,
                     transactions |-> <<>>,
                     totalInvested |-> Num(0), totalUnits |-> Num(0)]
    IN  Assign(acc, k,
               IF tx.type = Str("BUY")
               THEN [old EXCEPT !.transactions = Append(@, tx),
                                !.totalInvested = Plus(@, tx.amount),
                                !.totalUnits = Plus(@, tx.units)]
               ELSE [old EXCEPT !.transactions = Append(@, tx),
                                !.totalInvested = Minus(@, tx.amount),
                                !.totalUnits = Minus(@, tx.units)])

\* processMFTransactions(response)
processMFTransactions(response) ==
    IF IsFalsy(response) \/ "mfTransactions" \notin DOMAIN response
    THEN Returns([transactions |-> <<>>, schemes |-> EmptyObject,
                  error |-> Str("No transaction data available")])
    ELSE IF \E i \in 1..Len(response.mfTransactions) :
                "txns" \notin DOMAIN response.mfTransactions[i]
    THEN Throws
    ELSE LET transactions == mfFlatten(response.mfTransactions)
         IN  Returns([transactions |-> transactions,
                      schemes |->
                          LET acc[i \in 0..Len(transactions)] ==
                                  IF i = 0 THEN EmptyObject
                                  ELSE mfGroup(acc[i - 1], transactions[i])
                          IN  acc[Len(transactions)],
                      totalTransactions |-> Num(Len(transactions))])

----------------------------------------------------------------------------
(* utils.js: bank transactions *)

\* The members every object literal inherits, which an index can also reach.
InheritedKeys == {"constructor", "toString", "valueOf", "hasOwnProperty"}
JSFunction == [t |-> "function"]

\* The table read as if its first label had code 0.
getTransactionTypeZeroBased(typeCode) ==
    LET k == KeyOf(typeCode)
    IN  CASE k = "0" -> Str("CREDIT")
          [] k = "1" -> Str("DEBIT")
          [] k = "2" -> Str("OPENING")
          [] k = "3" -> Str("INTEREST")
          [] k = "4" -> Str("TDS")
          [] k = "5" -> Str("INSTALLMENT")
          [] k = "6" -> Str("CLOSING")
          [] k = "7" -> Str("OTHERS")
          [] k \in InheritedKeys -> JSFunction
          [] OTHER -> Str("UNKNOWN")

\* getTransactionType(typeCode): types[typeCode] || 'UNKNOWN'
getTransactionType(typeCode) ==
    LET k == KeyOf(typeCode)
    IN  CASE k = "1" -> Str("CREDIT")
          [] k = "2" -> Str("DEBIT")
          [] k = "3" -> Str("OPENING")
          [] k = "4" -> Str("INTEREST")
          [] k = "5" -> Str("TDS")
          [] k = "6" -> Str("INSTALLMENT")
          [] k = "7" -> Str("CLOSING")
          [] k = "8" -> Str("OTHERS")
          [] k \in InheritedKeys -> JSFunction
          [] OTHER -> Str("UNKNOWN")

\* The record pushed for one tuple [amount, narration, date, type, mode, balance].
bankTransaction(bank, txn) ==
    [bank |-> Field(bank, "bank"),
     amount |-> parseFloat(txn[1]),
     narration |-> txn[2],
     date |-> txn[3],
     type |-> getTransactionType(txn[4]),
     mode |-> txn[5],
     balance |-> parseFloat(txn[6])]

\* The nested forEach: every tuple of every bank record, in input order.
bankFlatten(banks) ==
    Flatten([i \in 1..Len(banks) |->
                [j \in 1..Len(banks[i].txns) |->
                    bankTransaction(banks[i], banks[i].txns[j])]])

\* The reducer counting every transaction that is not a credit as a debit.
bankGroupElseDebit(acc, tx) ==
    LET k == KeyOf(tx.bank)
        old == IF k \in DOMAIN acc THEN acc[k]
               ELSE [bank |-> tx.bank, transactions |-> <<>>,
                     totalCredits |-> Num(0), totalDebits |-> Num(0),
                     currentBalance |-> Num(0)]
        counted == IF tx.type = Str("CREDIT")
                       THEN [old EXCEPT !.totalCredits = Plus(@, tx.amount)]
                   ELSE [old EXCEPT !.totalDebits = Plus(@, tx.amount)]
    IN  Assign(acc, k,
               [counted EXCEPT !.transactions = Append(@, tx),
                               !.currentBalance = IF Greater(tx.balance, @)
                                                  THEN tx.balance ELSE @])

\* The reducer that groups the flattened transactions by bank.
bankGroup(acc, tx) ==
    LET k == KeyOf(tx.bank)
        old == IF k \in DOMAIN acc THEN acc[k]
               ELSE [bank |-> tx.bank, transactions |-> <<>>,
                     totalCredits |-> Num(0), totalDebits |-> Num(0),
                     currentBalance |-> Num(0)]
        counted == IF tx.type = Str("CREDIT")
                       THEN [old EXCEPT !.totalCredits = Plus(@, tx.amount)]
                   ELSE IF tx.type = Str("DEBIT")
                       THEN [old EXCEPT !.totalDebits = Plus(@, tx.amount)]
                   ELSE old
    IN  Assign(acc, k,
               [counted EXCEPT !.transactions = Append(@, tx),
                               !.currentBalance = IF Greater(tx.balance, @)
                                                  THEN tx.balance ELSE @])

\* processBankTransactions(response)
processBankTransactions(response) ==
    IF IsFalsy(response) \/ "bankTransactions" \notin DOMAIN response
    THEN Returns([transactions |-> <<>>, banks |-> EmptyObject,
                  error |-> Str("No bank transaction data available")])
    ELSE IF \E i \in 1..Len(response.bankTransactions) :
                "txns" \notin DOMAIN response.bankTransactions[i]
    THEN Throws
    ELSE LET transactions == bankFlatten(response.bankTransactions)
         IN  Returns([transactions |-> transactions,
                      banks |->
                          LET acc[i \in 0..Len(transactions)] ==
                                  IF i = 0 THEN EmptyObject
                                  ELSE bankGroup(acc[i - 1], transactions[i])
                          IN  acc[Len(transactions)],
                      totalTransactions |-> Num(Len(transactions))])

----------------------------------------------------------------------------
(* Inputs of utils.js *)

\* All sequences over a set of length at most n.
SeqUpTo(S, n) == UNION {[1..k -> S] : k \in 0..n}

\* An object with the fields of a and of b, and a field left out or present.
Merge(a, b) == [k \in DOMAIN a \cup DOMAIN b |-> IF k \in DOMAIN a THEN a[k] ELSE b[k]]
Optional(f, values) == {EmptyObject} \cup {[k \in {f} |-> v] : v \in values}

\* What a tool answers when it has nothing of the kind asked for.
NoPayloads == {JSUndefined, JSNull, [message |-> Str("no data")]}

\* [orderType, date, nav, units, amount]: a purchase, and a redemption that
\* the first fund reports with order type 2 and the second with order type 0.
MFTuples(isin) ==
    {<<Num(1), Str("2024-01-05"), Num(5), Num(100), Num(1000)>>,
     <<Num(IF isin = "INF1" THEN 2 ELSE 0), Str("2024-02-05"), Num(5), Num(40), Num(500)>>}

MFSchemes ==
    UNION {{[isin |-> Str(i), folioId |-> Str("F-" \o i), schemeName |-> Str("Fund " \o i),
             txns |-> t] : t \in SeqUpTo(MFTuples(i), MaxTxns)} : i \in {"INF1", "INF2"}}
    \cup {[isin |-> Str("INF1"), folioId |-> Str("F-INF1"), schemeName |-> Str("Fund INF1")]}

\* [amount, narration, date, type, mode, balance]: an overdrawn account with a
\* credit and a debit, and a savings account with interest and an unlisted code.
BankTuples(bank) ==
    IF bank = "HDFC"
    THEN {<<Str("100"), Str("SALARY"), Str("2024-01-05"), Num(1), Str("NEFT"), Str("-50")>>,
          <<Str("40"), Str("ATM"), Str("2024-01-09"), Num(2), Str("CARD"), Str("-100")>>}
    ELSE {<<Str("5"), Str("INTEREST"), Str("2024-01-31"), Num(4), Str("OTHERS"), Str("1000")>>,
          <<Str("500"), Str("FEE"), Str("2024-02-01"), Num(9), Str("OTHERS"), Str("0")>>}

BankRecords ==
    UNION {{[bank |-> Str(b), txns |-> t] : t \in SeqUpTo(BankTuples(b), MaxTxns)} :
              b \in {"HDFC", "SBI"}}
    \cup {[bank |-> Str("HDFC")]}

BankResponses ==
    NoPayloads \cup {[bankTransactions |-> m] : m \in SeqUpTo(BankRecords, MaxRecords)}

TypeCodes ==
    {Num(n) : n \in -1..9} \cup {Str("1"), Str("8"), Str("constructor"), JSUndefined}

MFResponses ==
    NoPayloads \cup {[mfTransactions |-> m] : m \in SeqUpTo(MFSchemes, MaxRecords)}

UnitsValues == {Num(0), Num(2), Str("0"), Str("5"), Str("500000"), Str("1500000")}
NanosValues == {Num(0), Num(1), Num(500000000), Num(999999999)}

\* {currencyCode, units, nanos} with units and nanos each present or left out.
CurrencyObjects ==
    {[currencyCode |-> Str("INR"), units |-> u, nanos |-> n] :
        u \in UnitsValues, n \in NanosValues}
    \cup {[currencyCode |-> Str("INR"), units |-> u] : u \in UnitsValues}
    \cup {[currencyCode |-> Str("INR"), nanos |-> n] : n \in NanosValues}
    \cup {[units |-> Str("abc")], [currencyCode |-> Str("INR")]}

NetWorthTotals ==
    {[units |-> Str("1500000")],
     [currencyCode |-> Str("INR"), units |-> Str("1500000")],
     [currencyCode |-> Str("USD"), units |-> Str("5"), nanos |-> Num(500000000)],
     [currencyCode |-> Str("INR"), nanos |-> Num(500000000)],
     [currencyCode |-> Str("RUPEES"), units |-> Str("5")]}

NetWorthAssets ==
    {[netWorthAttribute |-> Str("ASSET_TYPE_SAVINGS_ACCOUNTS"),
      value |-> [currencyCode |-> Str("INR"), units |-> Str("500000")]],
     [netWorthAttribute |-> Str("ASSET_TYPE_MUTUAL_FUND"),
      value |-> [currencyCode |-> Str("INR"), units |-> Str("1000")]],
     [netWorthAttribute |-> Str("ASSET_TYPE_EPF")]}

NetWorthResponses ==
    NoPayloads
    \cup {Merge([netWorthResponse |-> Merge(t, a)], m) :
            t \in Optional("totalNetWorthValue", NetWorthTotals),
            a \in Optional("assetValues", SeqUpTo(NetWorthAssets, MaxRecords)),
            m \in Optional("mfSchemeAnalytics",
                           {[schemeAnalytics |-> <<[isin |-> Str("INF1")]>>]})}

CreditAccounts ==
    {[identificationNumber |-> Str("AV12345678"), subscriberName |-> Str("Federal Bank"),
      creditLimitAmount |-> Str("500000"), currentBalance |-> Str("abc")],
     [identificationNumber |-> Str("AV2"), currentBalance |-> Str("1000")]}

CreditSummaries ==
    {[account |-> [creditAccountTotal |-> Str("5"), creditAccountActive |-> Num(0)],
      totalOutstandingBalance |-> [outstandingBalanceAll |-> Str("1000")]],
     [account |-> [creditAccountTotal |-> Num(2)]]}

CreditReportData ==
    {Merge(sc, ac) :
        sc \in Optional("score", {[bureauScore |-> Str("750")],
                                  [bureauScore |-> Str("abc")],
                                  [bureauDate |-> Str("2024-01-05")]}),
        ac \in Optional("creditAccount",
                {[creditAccountDetails |-> <<a>>, creditAccountSummary |-> sm] :
                    a \in CreditAccounts, sm \in CreditSummaries}
                \cup {[creditAccountDetails |-> <<>>]})}

CreditReports ==
    {[vendor |-> Str("EXPERIAN")]}
    \cup {[creditReportData |-> d, vendor |-> Str("EXPERIAN")] : d \in CreditReportData}

CreditResponses ==
    NoPayloads \cup {[creditReports |-> r] : r \in SeqUpTo(CreditReports, MaxRecords)}

EPFEstablishments ==
    {[est_name |-> Str("ACME"),
      pf_balance |-> [employer_share |-> [balance |-> Str("40")]]],
     [est_name |-> Str("INITECH")]}

EPFOverall ==
    [current_pf_balance |-> Str("500000"), pension_balance |-> Str("1000"),
     employee_share_total |-> [balance |-> Str("100")],
     employer_share_total |-> [balance |-> Str("750")]]

EPFAccounts ==
    {[phoneNumber |-> Str("9999999999")]}
    \cup {[rawDetails |-> Merge(o, d)] :
            o \in Optional("overall_pf_balance", {EPFOverall}),
            d \in Optional("est_details", SeqUpTo(EPFEstablishments, MaxRecords))}

EPFResponses ==
    NoPayloads \cup {[uanAccounts |-> a] : a \in SeqUpTo(EPFAccounts, MaxRecords)}

\* A pending application of a function of utils.js to an argument.
Pending(fn, arg) == [fn |-> fn, arg |-> arg, done |-> FALSE]

\* The application once it has run: it returned a value or threw.
Returned(c, value) ==
    [fn |-> c.fn, arg |-> c.arg, done |-> TRUE, threw |-> FALSE, result |-> value]
Threw(c) ==
    [fn |-> c.fn, arg |-> c.arg, done |-> TRUE, threw |-> TRUE]

Done(c, r) == IF r.threw THEN Threw(c) ELSE Returned(c, r.value)

\* The functions of utils.js that are applied, and the arguments of each.
UtilsFunctions ==
    {"currencyToNumber", "getTransactionType", "processNetWorthData", "processCreditData",
     "processEPFData", "processMFTransactions", "processBankTransactions"}
ArgumentsOf(fn) ==
    CASE fn = "currencyToNumber" -> CurrencyObjects \cup {JSUndefined}
      [] fn = "getTransactionType" -> TypeCodes
      [] fn = "processNetWorthData" -> NetWorthResponses
      [] fn = "processCreditData" -> CreditResponses
      [] fn = "processEPFData" -> EPFResponses
      [] fn = "processMFTransactions" -> MFResponses
      [] fn = "processBankTransactions" -> BankResponses

----------------------------------------------------------------------------
(* SpecUtils: one function of utils.js applied to one input *)

InitUtils ==
    /\ sessionId = NULL
    /\ isAuthenticated = FALSE
    /\ now = 0
    /\ inflight = [s \in Slots |-> Idle]
    /\ last = NothingYet
    /\ handlers = [h \in HandlerIds |-> NoHandler]
    /\ \E fn \in UtilsFunctions : \E a \in ArgumentsOf(fn) : call = Pending(fn, a)

Applies(fn) == call.fn = fn /\ ~call.done

ApplyCurrencyToNumber ==
    /\ Applies("currencyToNumber")
    /\ call' = Returned(call, currencyToNumber(call.arg))
    /\ UNCHANGED <<sessionId, isAuthenticated, now, inflight, last, handlers>>

ApplyProcessMFTransactions ==
    /\ Applies("processMFTransactions")
    /\ call' = Done(call, processMFTransactions(call.arg))
    /\ UNCHANGED <<sessionId, isAuthenticated, now, inflight, last, handlers>>

ApplyProcessBankTransactions ==
    /\ Applies("processBankTransactions")
    /\ call' = Done(call, processBankTransactions(call.arg))
    /\ UNCHANGED <<sessionId, isAuthenticated, now, inflight, last, handlers>>

ApplyGetTransactionType ==
    /\ Applies("getTransactionType")
    /\ call' = Returned(call, getTransactionType(call.arg))
    /\ UNCHANGED <<sessionId, isAuthenticated, now, inflight, last, handlers>>

ApplyProcessNetWorthData ==
    /\ Applies("processNetWorthData")
    /\ call' = Done(call, processNetWorthData(call.arg))
    /\ UNCHANGED <<sessionId, isAuthenticated, now, inflight, last, handlers>>

ApplyProcessCreditData ==
    /\ Applies("processCreditData")
    /\ call' = Done(call, processCreditData(call.arg))
    /\ UNCHANGED <<sessionId, isAuthenticated, now, inflight, last, handlers>>

ApplyProcessEPFData ==
    /\ Applies("processEPFData")
    /\ call' = Done(call, processEPFData(call.arg))
    /\ UNCHANGED <<sessionId, isAuthenticated, now, inflight, last, handlers>>

NextUtils ==
    \/ ApplyCurrencyToNumber
    \/ ApplyProcessMFTransactions
    \/ ApplyProcessBankTransactions
    \/ ApplyGetTransactionType
    \/ ApplyProcessNetWorthData
    \/ ApplyProcessCreditData
    \/ ApplyProcessEPFData

SpecUtils == InitUtils /\ [][NextUtils]_vars

----------------------------------------------------------------------------
(* index.js: the HTTP endpoints *)

DataEndpoints ==
    {"getNetWorth", "getCreditReport", "getEPFDetails", "getMFTransactions",
     "getBankTransactions"}
Endpoints == DataEndpoints \cup {"healthCheck"}

\* The wrapper each data endpoint calls: fetchNetWorth .. fetchBankTransactions.
ToolOf(endpoint) ==
    CASE endpoint = "getNetWorth" -> "fetch_net_worth"
      [] endpoint = "getCreditReport" -> "fetch_credit_report"
      [] endpoint = "getEPFDetails" -> "fetch_epf_details"
      [] endpoint = "getMFTransactions" -> "fetch_mf_transactions"
      [] endpoint = "getBankTransactions" -> "fetch_bank_transactions"

\* The normalizer each data endpoint applies to the raw data.
Normalize(endpoint, rawData) ==
    CASE endpoint = "getNetWorth" -> processNetWorthData(rawData)
      [] endpoint = "getCreditReport" -> processCreditData(rawData)
      [] endpoint = "getEPFDetails" -> processEPFData(rawData)
      [] endpoint = "getMFTransactions" -> processMFTransactions(rawData)
      [] endpoint = "getBankTransactions" -> processBankTransactions(rawData)

\* The status and the opening of the message of the endpoint's catch block.
FailureStatus(endpoint) == IF endpoint = "healthCheck" THEN 503 ELSE 500
FailurePrefix(endpoint) ==
    CASE endpoint = "getNetWorth" -> "Failed to fetch net worth: "
      [] endpoint = "getCreditReport" -> "Failed to fetch credit report: "
      [] endpoint = "getEPFDetails" -> "Failed to fetch EPF details: "
      [] endpoint = "getMFTransactions" -> "Failed to fetch mutual fund transactions: "
      [] endpoint = "getBankTransactions" -> "Failed to fetch bank transactions: "
      [] endpoint = "healthCheck" -> "MCP connection failed: "

\* What has been written to res: nothing yet, res.status(200).end(), sendError
\* or sendSuccess (the timestamp is left out).
NoReply == [status |-> 0, kind |-> "none"]
EmptyReply == [status |-> 200, kind |-> "end"]
sendError(statusCode, message) ==
    [status |-> statusCode, kind |-> "json", success |-> FALSE, error |-> message]
sendSuccess(data) ==
    [status |-> 200, kind |-> "json", success |-> TRUE, data |-> data]

\* req.query.phoneNumber || req.body?.phoneNumber || '9999999999'
phoneNumberOf(query, body) ==
    IF Truthy(query) THEN query ELSE IF Truthy(body) THEN body ELSE "9999999999"

\* The value JSON.parse made, as the object the normalizers read.
JSONValue(json) ==
    CASE json = "object{netWorthResponse}" -> [netWorthResponse |-> EmptyObject]
      [] json = "object{creditReports:[{}]}" -> [creditReports |-> <<EmptyObject>>]
      [] json = "number 42" -> Num(42)

\* rawData: what callTool returned.
RawData(value) ==
    IF value.kind = "parsed" THEN JSONValue(value.text)
    ELSE IF value.result.present THEN [content |-> value.result.content]
    ELSE JSUndefined

\* One request being handled: where its handler stands, its own client, the
\* steps it has run (with the requests each sent) and what it has replied.
Started(endpoint, phoneNumber) ==
    [pc |-> "initialize", endpoint |-> endpoint, phoneNumber |-> phoneNumber,
     sessionId |-> NULL, isAuthenticated |-> FALSE, log |-> <<>>, reply |-> NoReply]

Step(name, ok, sent) == [step |-> name, ok |-> ok, sent |-> sent]

\* The client's fields after a method of it ran, and the step added to the log.
Ran(hd, name, o, sent) ==
    [hd EXCEPT !.sessionId = o.sessionId,
               !.isAuthenticated = o.isAuthenticated,
               !.log = Append(@, Step(name, o.outcome = "returned", sent))]

\* The catch block of the endpoint.
Caught(hd, message) ==
    [hd EXCEPT !.pc = "done",
               !.reply = sendError(FailureStatus(hd.endpoint),
                                   <<FailurePrefix(hd.endpoint)>> \o message)]

\* The handler up to its first await.
received(endpoint, method, query, body) ==
    IF method = "OPTIONS"
    THEN [Started(endpoint, "") EXCEPT !.pc = "done", !.reply = EmptyReply]
    ELSE Started(endpoint,
                 IF endpoint = "healthCheck" THEN "9999999999"
                 ELSE phoneNumberOf(query, body))

\* await mcpClient.initialize()
afterInitialize(hd, resp) ==
    LET o == initializeBody(hd.sessionId, hd.isAuthenticated, resp)
        ran == Ran(hd, "initialize", o, Attempts(initializeRequest, resp))
    IN  IF o.outcome = "returned" THEN [ran EXCEPT !.pc = "authenticate"]
        ELSE Caught(ran, o.error)

\* The login whose failure does not stop the handler.
afterAuthenticateUnchecked(hd, resp) ==
    LET o == authenticateBody(hd.sessionId, hd.isAuthenticated, resp)
        ran == Ran(hd, "authenticate", o,
                   Attempts(authenticateRequest(hd.sessionId, hd.phoneNumber), resp))
    IN  [ran EXCEPT !.pc = "fetch"]

\* The login made through one client that the requests in progress share: it
\* carries the session identifier the latest of them was given.
afterAuthenticateSharedClient(hd, resp) ==
    LET initialized == {k \in HandlerIds : handlers[k].pc \in {"authenticate", "fetch"}}
        latest == CHOOSE k \in initialized : \A j \in initialized : k >= j
        sid == handlers[latest].sessionId
        guarded == authenticateGuard(sid)
        o == IF guarded THEN authenticateBody(sid, hd.isAuthenticated, resp)
             ELSE authenticateNoSession(sid, hd.isAuthenticated)
        ran == Ran(hd, "authenticate", o,
                   IF guarded
                   THEN Attempts(authenticateRequest(sid, hd.phoneNumber), resp)
                   ELSE <<>>)
    IN  IF o.outcome = "returned" THEN [ran EXCEPT !.pc = "fetch"]
        ELSE Caught(ran, o.error)

\* await mcpClient.authenticate(phoneNumber)
afterAuthenticate(hd, resp) ==
    LET guarded == authenticateGuard(hd.sessionId)
        o == IF guarded THEN authenticateBody(hd.sessionId, hd.isAuthenticated, resp)
             ELSE authenticateNoSession(hd.sessionId, hd.isAuthenticated)
        ran == Ran(hd, "authenticate", o,
                   IF guarded
                   THEN Attempts(authenticateRequest(hd.sessionId, hd.phoneNumber), resp)
                   ELSE <<>>)
    IN  IF o.outcome = "returned" THEN [ran EXCEPT !.pc = "fetch"]
        ELSE Caught(ran, o.error)

\* await mcpClient.fetchX(), processX(rawData), sendSuccess
afterFetch(hd, resp, clock) ==
    LET o == callToolBody(hd.sessionId, hd.isAuthenticated, resp)
        ran == Ran(hd, "callTool", o,
                   Attempts(callToolRequest(hd.sessionId, ToolOf(hd.endpoint), clock), resp))
        processedData == Normalize(hd.endpoint, RawData(o.value))
        normalized == [ran EXCEPT !.log = Append(@, Step("normalize", ~processedData.threw, <<>>))]
    IN  IF o.outcome # "returned" THEN Caught(ran, o.error)
        ELSE IF processedData.threw
        THEN Caught(normalized, <<"Cannot read properties of undefined">>)
        ELSE [normalized EXCEPT !.pc = "done", !.reply = sendSuccess(processedData.value)]

\* await mcpClient.listTools(), tools.tools || []
afterListTools(hd, resp) ==
    LET o == listToolsBody(hd.sessionId, hd.isAuthenticated, resp)
        ran == Ran(hd, "listTools", o, Attempts(listToolsRequest(hd.sessionId), resp))
    IN  IF o.outcome # "returned" THEN Caught(ran, o.error)
        ELSE IF ~o.value.result.present
        THEN Caught(ran, <<"Cannot read properties of undefined (reading 'tools')">>)
        ELSE [ran EXCEPT !.pc = "done",
                         !.reply = sendSuccess([status |-> Str("healthy"),
                                                mcpConnection |-> Str("connected"),
                                                availableTools |-> <<>>])]

\* What the remote service answers to the endpoints' requests.
RootInitResponses ==
    {NetworkDown, Answer(200, UNDEFINED, NoData)}
    \cup {Answer(200, h, NoData) : h \in SessionIds}
RootLoginResponses == {Answer(st, UNDEFINED, NoData) : st \in {200, 401}}
RootTexts == {"{\"netWorthResponse\":{}}", "{\"creditReports\":[{}]}", "not json"}
RootRpcResponses ==
    {Answer(500, UNDEFINED, NoData),
     Answer(200, UNDEFINED, [hasData |-> TRUE, error |-> NoError, result |-> NoResult]),
     Answer(200, UNDEFINED,
            [hasData |-> TRUE,
             error |-> [present |-> TRUE, message |-> "unknown tool"],
             result |-> NoResult])}
    \cup {Answer(200, UNDEFINED,
                 [hasData |-> TRUE, error |-> NoError,
                  result |-> [present |-> TRUE, hasContent |-> TRUE,
                              content |-> <<TextItem(t)>>]]) : t \in RootTexts}

InitRoot ==
    /\ sessionId = NULL
    /\ isAuthenticated = FALSE
    /\ now = 0
    /\ inflight = [s \in Slots |-> Idle]
    /\ last = NothingYet
    /\ call = NoCall
    /\ handlers = [h \in HandlerIds |-> NoHandler]

Handle(h, hd) ==
    /\ handlers' = [handlers EXCEPT ![h] = hd]
    /\ UNCHANGED <<sessionId, isAuthenticated, now, inflight, last, call>>

Receive(h) ==
    /\ handlers[h].pc = "idle"
    /\ \E endpoint \in Endpoints, method \in {"GET", "OPTIONS"},
          query \in {UNDEFINED, "1111111111"}, body \in {UNDEFINED, "9999999999"} :
            Handle(h, received(endpoint, method, query, body))

HandlerInitialize(h) ==
    /\ handlers[h].pc = "initialize"
    /\ \E resp \in RootInitResponses : Handle(h, afterInitialize(handlers[h], resp))

HandlerAuthenticate(h) ==
    /\ handlers[h].pc = "authenticate"
    /\ \E resp \in RootLoginResponses : Handle(h, afterAuthenticate(handlers[h], resp))

HandlerFetch(h) ==
    /\ handlers[h].pc = "fetch"
    /\ handlers[h].endpoint \in DataEndpoints
    /\ \E resp \in RootRpcResponses : Handle(h, afterFetch(handlers[h], resp, now))

HandlerListTools(h) ==
    /\ handlers[h].pc = "fetch"
    /\ handlers[h].endpoint = "healthCheck"
    /\ \E resp \in RootRpcResponses : Handle(h, afterListTools(handlers[h], resp))

NextRoot ==
    \E h \in HandlerIds :
        \/ Receive(h)
        \/ HandlerInitialize(h)
        \/ HandlerAuthenticate(h)
        \/ HandlerFetch(h)
        \/ HandlerListTools(h)

SpecRoot == InitRoot /\ [][NextRoot]_vars

----------------------------------------------------------------------------
(* Properties of utils.js *)

Finishes(fn) == call.fn = fn /\ call.done

\* The whole number a units or nanos property stands for; 0 when left out.
WholeOf(o, f) ==
    IF f \notin DOMAIN o THEN 0
    ELSE IF o[f].t = "number" THEN o[f].n
    ELSE NumeralValue(o[f].s)

\* A currency object whose units, if present, are a whole number or a numeral
\* and whose nanos, if present, are a whole number in 0 .. 1e9 - 1.
IsCurrencyAmount(o) ==
    /\ o # JSUndefined
    /\ "units" \in DOMAIN o
        => \/ o.units.t = "number"
           \/ o.units.t = "string" /\ o.units.s \in NumeralStrings
    /\ "nanos" \in DOMAIN o
        => o.nanos.t = "number" /\ o.nanos.n \in 0..(NanosPerUnit - 1)

\* C16: currencyToNumber returns units + nanos / 1e9 for every amount with
\* 0 <= nanos < 1e9, units or nanos that are left out counting as 0.
C16_DecodeAmount ==
    (Finishes("currencyToNumber") /\ IsCurrencyAmount(call.arg))
        => /\ ~call.threw
           /\ call.result = NumF(WholeOf(call.arg, "units"), WholeOf(call.arg, "nanos"))

\* The sum of a sequence of integers.
Sum(numbers) ==
    LET sum[i \in 0..Len(numbers)] == IF i = 0 THEN 0 ELSE sum[i - 1] + numbers[i]
    IN  sum[Len(numbers)]

\* The tuples of the scheme records of a response whose isin makes the key k.
TuplesOfKey(schemes, k) ==
    Flatten([i \in 1..Len(schemes) |->
                IF KeyOf(Field(schemes[i], "isin")) = k THEN schemes[i].txns ELSE <<>>])

\* Over the tuples with orderType 1, and over the others, the sum of the whole
\* number at position k (4 is units, 5 is amount).
BuySum(tuples, k) ==
    Sum([i \in 1..Len(tuples) |-> IF tuples[i][1] = Num(1) THEN tuples[i][k].n ELSE 0])
OtherSum(tuples, k) ==
    Sum([i \in 1..Len(tuples) |-> IF tuples[i][1] # Num(1) THEN tuples[i][k].n ELSE 0])

\* C20: every scheme aggregate has totalInvested equal to the amounts of its
\* tuples with orderType 1 minus the amounts of its other tuples, and totalUnits
\* the same difference of units, negative when the others outweigh.
C20_SchemeTotals ==
    (Finishes("processMFTransactions") /\ ~call.threw
        /\ "mfTransactions" \in DOMAIN call.arg)
        => \A k \in DOMAIN call.result.schemes :
            LET tuples == TuplesOfKey(call.arg.mfTransactions, k)
                agg == call.result.schemes[k]
            IN  /\ agg.totalInvested =
                     Num(BuySum(tuples, 5) - OtherSum(tuples, 5))
                /\ agg.totalUnits =
                     Num(BuySum(tuples, 4) - OtherSum(tuples, 4))
                /\ Len(agg.transactions) = Len(tuples)

\* C20 witness: BUY(units 100, amount 1000) then SELL(units 40, amount 500) of
\* one scheme were folded to totalUnits 60 and totalInvested 500.
C20_Witness ==
    /\ Finishes("processMFTransactions")
    /\ ~call.threw
    /\ "mfTransactions" \in DOMAIN call.arg
    /\ Len(call.arg.mfTransactions) = 1
    /\ call.arg.mfTransactions[1].isin = Str("INF1")
    /\ "txns" \in DOMAIN call.arg.mfTransactions[1]
    /\ call.arg.mfTransactions[1].txns =
         << <<Num(1), Str("2024-01-05"), Num(5), Num(100), Num(1000)>>,
            <<Num(2), Str("2024-02-05"), Num(5), Num(40), Num(500)>> >>
    /\ call.result.schemes["INF1"].totalUnits = Num(60)
    /\ call.result.schemes["INF1"].totalInvested = Num(500)

\* The tuples of the bank records of a response whose name makes the key k.
TuplesOfBank(banks, k) ==
    Flatten([i \in 1..Len(banks) |->
                IF KeyOf(Field(banks[i], "bank")) = k THEN banks[i].txns ELSE <<>>])

\* The largest of the balances of a non-empty sequence of tuples.
MaxBalance(tuples) ==
    LET balances == {NumeralValue(tuples[i][6].s) : i \in 1..Len(tuples)}
    IN  CHOOSE m \in balances : \A b \in balances : b <= m

\* C17: every bank aggregate has currentBalance equal to the largest balance
\* among the transactions of that bank, whatever their order and sign.
C17_CurrentBalanceIsMax ==
    (Finishes("processBankTransactions") /\ ~call.threw
        /\ "bankTransactions" \in DOMAIN call.arg)
        => \A k \in DOMAIN call.result.banks :
            call.result.banks[k].currentBalance =
                Num(MaxBalance(TuplesOfBank(call.arg.bankTransactions, k)))

Normalizers ==
    {"processNetWorthData", "processCreditData", "processEPFData",
     "processMFTransactions", "processBankTransactions"}

\* The top-level container each normalizer looks for.
ContainerOf(fn) ==
    CASE fn = "processNetWorthData" -> "netWorthResponse"
      [] fn = "processCreditData" -> "creditReports"
      [] fn = "processEPFData" -> "uanAccounts"
      [] fn = "processMFTransactions" -> "mfTransactions"
      [] fn = "processBankTransactions" -> "bankTransactions"

\* A normalizer has finished, on any argument.
NormalizerFinished == call.fn \in Normalizers /\ call.done

\* C18: a normalizer given a payload whose top-level container is present
\* returns a record and does not raise, whatever nested fields are missing.
C18_NormalizersNeverRaise ==
    (NormalizerFinished /\ ~IsFalsy(call.arg) /\ ContainerOf(call.fn) \in DOMAIN call.arg)
        => ~call.threw

\* The argument is absent or lacks the container or, for the credit report and
\* the provident fund, has an empty container list.
NothingToNormalize ==
    \/ IsFalsy(call.arg)
    \/ ContainerOf(call.fn) \notin DOMAIN call.arg
    \/ /\ call.fn \in {"processCreditData", "processEPFData"}
       /\ call.arg[ContainerOf(call.fn)] = <<>>

TotalFields ==
    {"totalNetWorth", "totalBalance", "employeeShare", "employerShare", "pensionBalance",
     "totalAccounts", "activeAccounts", "totalTransactions"}
ListFields == {"assets", "accounts", "transactions", "employerDetails", "mutualFunds"}
MapFields == {"schemes", "banks", "accountDetails"}

\* C19: a normalizer given nothing to normalize returns, without raising, a
\* record whose totals are 0, whose lists and maps are empty, and whose error
\* field is a non-empty string.
C19_EmptyInputGivesZeroedRecord ==
    (NormalizerFinished /\ NothingToNormalize)
        => /\ ~call.threw
           /\ "error" \in DOMAIN call.result
           /\ call.result.error.t = "string"
           /\ call.result.error.s # ""
           /\ DOMAIN call.result \cap (TotalFields \cup ListFields) # {}
           /\ \A f \in DOMAIN call.result :
                /\ f \in TotalFields => call.result[f] = Num(0)
                /\ f \in ListFields => call.result[f] = <<>>
                /\ f \in MapFields => DOMAIN call.result[f] = {}

\* C19 witness: processCreditData was given an empty creditReports list and
\* returned its record with no accounts and a reason.
C19_Witness ==
    /\ Finishes("processCreditData")
    /\ ~IsFalsy(call.arg)
    /\ "creditReports" \in DOMAIN call.arg
    /\ call.arg.creditReports = <<>>
    /\ ~call.threw
    /\ call.result.accounts = <<>>
    /\ call.result.error = Str("No credit data available")

\* The order of the steps of a data endpoint.
DataSteps == <<"initialize", "authenticate", "callTool", "normalize">>

\* C15: in every request to a data endpoint the steps run in the order
\* initialize, authenticate, callTool, normalize, each one only after all the
\* steps before it succeeded, and a success reply is sent only after all four.
C15_StepsInOrder ==
    \A h \in HandlerIds :
        (handlers[h].pc # "idle" /\ handlers[h].endpoint \in DataEndpoints)
            => LET log == handlers[h].log IN
               /\ Len(log) <= Len(DataSteps)
               /\ \A i \in 1..Len(log) :
                    /\ log[i].step = DataSteps[i]
                    /\ i < Len(log) => log[i].ok
               /\ (handlers[h].reply.kind = "json" /\ handlers[h].reply.success)
                    => /\ Len(log) = Len(DataSteps)
                       /\ \A i \in 1..Len(log) : log[i].ok

\* C15 witness: a getNetWorth request has replied with success after its four
\* steps, and its tool call carried the session its own initialize obtained.
C15_Witness ==
    \E h \in HandlerIds :
        /\ handlers[h].pc = "done"
        /\ handlers[h].endpoint = "getNetWorth"
        /\ handlers[h].reply.kind = "json"
        /\ handlers[h].reply.success
        /\ Len(handlers[h].log) = 4
        /\ handlers[h].log[3].step = "callTool"
        /\ handlers[h].log[3].sent[1].session = handlers[h].sessionId
        /\ handlers[h].log[4].step = "normalize"
        /\ handlers[h].log[4].ok

\* The number of tuples in the records before record i of a list.
TuplesBefore(records, i) == Sum([k \in 1..(i - 1) |-> Len(records[k].txns)])

\* C21: the flattened list holds every tuple of every scheme once and in input
\* order, its length (and totalTransactions) is the sum of the schemes' list
\* lengths, each element carries the isin, folioId and schemeName of its scheme
\* and the fields of its tuple, and its type is BUY for orderType 1, else SELL.
C21_FlattenKeepsEveryTransaction ==
    (Finishes("processMFTransactions") /\ ~call.threw
        /\ ~IsFalsy(call.arg) /\ "mfTransactions" \in DOMAIN call.arg)
        => LET schemes == call.arg.mfTransactions
               flat == call.result.transactions
           IN  /\ Len(flat) = TuplesBefore(schemes, Len(schemes) + 1)
               /\ call.result.totalTransactions = Num(Len(flat))
               /\ \A i \in 1..Len(schemes) : \A j \in 1..Len(schemes[i].txns) :
                    LET tx == flat[TuplesBefore(schemes, i) + j]
                        txn == schemes[i].txns[j]
                    IN  /\ tx.isin = schemes[i].isin
                        /\ tx.folioId = schemes[i].folioId
                        /\ tx.schemeName = schemes[i].schemeName
                        /\ tx.type = IF txn[1] = Num(1) THEN Str("BUY") ELSE Str("SELL")
                        /\ <<tx.date, tx.nav, tx.units, tx.amount>>
                             = <<txn[2], txn[3], txn[4], txn[5]>>

\* C21 witness: two schemes, the first with two tuples and the second with a
\* tuple of order type 0, were flattened to three transactions, the last a SELL
\* of the second scheme.
C21_Witness ==
    /\ Finishes("processMFTransactions")
    /\ ~call.threw
    /\ ~IsFalsy(call.arg)
    /\ "mfTransactions" \in DOMAIN call.arg
    /\ Len(call.arg.mfTransactions) = 2
    /\ \A i \in 1..2 : "txns" \in DOMAIN call.arg.mfTransactions[i]
    /\ Len(call.arg.mfTransactions[1].txns) = 2
    /\ call.arg.mfTransactions[2].isin = Str("INF2")
    /\ Len(call.arg.mfTransactions[2].txns) = 1
    /\ call.arg.mfTransactions[2].txns[1][1] = Num(0)
    /\ Len(call.result.transactions) = 3
    /\ call.result.transactions[3].isin = Str("INF2")
    /\ call.result.transactions[3].type = Str("SELL")

\* The eight labels in the order of their codes, and the label of a code that
\* is a number or is absent.
TypeLabels ==
    <<"CREDIT", "DEBIT", "OPENING", "INTEREST", "TDS", "INSTALLMENT", "CLOSING", "OTHERS">>
IsTypeCode(v) == v.t \in {"number", "undefined", "null"}
LabelOf(v) ==
    IF v.t = "number" /\ v.nanos = 0 /\ v.n \in 1..8 THEN Str(TypeLabels[v.n])
    ELSE Str("UNKNOWN")

\* C22: codes 1 to 8 give the eight labels in order and every other code (0,
\* negative, above 8, absent) gives UNKNOWN; every flattened bank transaction
\* has the label of its tuple's code, one of the nine.
C22_TypeCodeLabels ==
    /\ (Finishes("getTransactionType") /\ IsTypeCode(call.arg))
        => call.result = LabelOf(call.arg)
    /\ (Finishes("processBankTransactions") /\ ~call.threw
            /\ ~IsFalsy(call.arg) /\ "bankTransactions" \in DOMAIN call.arg)
        => LET banks == call.arg.bankTransactions
               flat == call.result.transactions
           IN  /\ Len(flat) = TuplesBefore(banks, Len(banks) + 1)
               /\ \A i \in 1..Len(banks) : \A j \in 1..Len(banks[i].txns) :
                    LET type == flat[TuplesBefore(banks, i) + j].type
                    IN  /\ type = LabelOf(banks[i].txns[j][4])
                        /\ type.s \in {TypeLabels[n] : n \in 1..8} \cup {"UNKNOWN"}

\* C22 witness: a bank record with a tuple of code 4 and a tuple of code 9 was
\* flattened to an INTEREST and an UNKNOWN transaction.
C22_Witness ==
    /\ Finishes("processBankTransactions")
    /\ ~call.threw
    /\ ~IsFalsy(call.arg)
    /\ "bankTransactions" \in DOMAIN call.arg
    /\ Len(call.arg.bankTransactions) = 1
    /\ "txns" \in DOMAIN call.arg.bankTransactions[1]
    /\ Len(call.arg.bankTransactions[1].txns) = 2
    /\ call.arg.bankTransactions[1].txns[1][4] = Num(4)
    /\ call.arg.bankTransactions[1].txns[2][4] = Num(9)
    /\ call.result.transactions[1].type = Str("INTEREST")
    /\ call.result.transactions[2].type = Str("UNKNOWN")

\* The sum of the amounts of the tuples whose code has the given label.
AmountLabelled(tuples, label) ==
    Sum([i \in 1..Len(tuples) |->
            IF LabelOf(tuples[i][4]) = Str(label)
            THEN NumeralValue(tuples[i][1].s) ELSE 0])

\* C23: every bank aggregate has totalCredits equal to the sum of the amounts
\* of that bank's CREDIT transactions and totalDebits the sum of its DEBIT
\* ones; other labels and other banks' transactions change neither, and the
\* aggregate lists that bank's transactions only.
C23_BankTotals ==
    (Finishes("processBankTransactions") /\ ~call.threw
        /\ ~IsFalsy(call.arg) /\ "bankTransactions" \in DOMAIN call.arg)
        => \A k \in DOMAIN call.result.banks :
            LET tuples == TuplesOfBank(call.arg.bankTransactions, k)
                agg == call.result.banks[k]
            IN  /\ agg.totalCredits = Num(AmountLabelled(tuples, "CREDIT"))
                /\ agg.totalDebits = Num(AmountLabelled(tuples, "DEBIT"))
                /\ Len(agg.transactions) = Len(tuples)
                /\ \A i \in 1..Len(agg.transactions) : KeyOf(agg.transactions[i].bank) = k

\* C23 witness: a response with one bank holding a credit of 100 and a debit of
\* 40 and another bank holding only other labels gave totals 100 / 40 for the
\* first and 0 / 0 for the second.
C23_Witness ==
    /\ Finishes("processBankTransactions")
    /\ ~call.threw
    /\ ~IsFalsy(call.arg)
    /\ "bankTransactions" \in DOMAIN call.arg
    /\ DOMAIN call.result.banks = {"HDFC", "SBI"}
    /\ call.result.banks["HDFC"].totalCredits = Num(100)
    /\ call.result.banks["HDFC"].totalDebits = Num(40)
    /\ Len(call.result.banks["SBI"].transactions) = 2
    /\ call.result.banks["SBI"].totalCredits = Num(0)
    /\ call.result.banks["SBI"].totalDebits = Num(0)

\* The employer-share balance of one establishment record, 0 when it has none.
EmployerBalance(est) ==
    IF "pf_balance" \in DOMAIN est THEN NumeralValue(est.pf_balance.employer_share.balance.s)
    ELSE 0

\* The establishment records of the first account of a response.
Establishments(response) ==
    IF "est_details" \in DOMAIN response.uanAccounts[1].rawDetails
    THEN response.uanAccounts[1].rawDetails.est_details
    ELSE <<>>

\* C24: employerShare is the sum of the establishment records' employer-share
\* balances, a record without one counting 0; it is 0 without records and does
\* not follow the top-level employer_share_total.
C24_EmployerShareIsSum ==
    (Finishes("processEPFData") /\ ~call.threw /\ ~NothingToNormalize)
        => LET ests == Establishments(call.arg) IN
           /\ call.result.employerShare =
                Num(Sum([i \in 1..Len(ests) |-> EmployerBalance(ests[i])]))
           /\ call.result.employerDetails = ests

\* C24 witness: two establishment records of balance 40 each, beside a
\* top-level employer share of 750, gave employerShare 80.
C24_Witness ==
    /\ Finishes("processEPFData")
    /\ ~call.threw
    /\ ~NothingToNormalize
    /\ Len(Establishments(call.arg)) = 2
    /\ \A i \in 1..2 : EmployerBalance(Establishments(call.arg)[i]) = 40
    /\ "overall_pf_balance" \in DOMAIN call.arg.uanAccounts[1].rawDetails
    /\ call.arg.uanAccounts[1].rawDetails.overall_pf_balance.employer_share_total.balance
         = Str("750")
    /\ call.result.employerShare = Num(80)

\* units + nanos / 1e9 of a currency amount, or 0 when the amount is absent.
Decoded(o) ==
    IF o = JSUndefined THEN Num(0) ELSE NumF(WholeOf(o, "units"), WholeOf(o, "nanos"))

\* C25: the record processNetWorthData returns has the decoded
\* totalNetWorthValue as its total, that value's currency code or INR, and one
\* asset per input entry, in order, each with its type and decoded value.
C25_NetWorthRecord ==
    (Finishes("processNetWorthData") /\ ~call.threw /\ ~NothingToNormalize)
        => LET netWorthData == call.arg.netWorthResponse
               total == Field(netWorthData, "totalNetWorthValue")
               entries == FieldOr(netWorthData, "assetValues", <<>>)
           IN  /\ call.result.totalNetWorth = Decoded(total)
               /\ call.result.currency =
                    (IF "currencyCode" \in DOMAIN total THEN total.currencyCode
                     ELSE Str("INR"))
               /\ Len(call.result.assets) = Len(entries)
               /\ \A i \in 1..Len(entries) :
                    /\ call.result.assets[i].type = Field(entries[i], "netWorthAttribute")
                    /\ call.result.assets[i].value = Decoded(Field(entries[i], "value"))

\* The number a field is coerced to: itself, the value of a numeral, 0 otherwise.
Coerced(v) ==
    IF v.t = "number" THEN v
    ELSE IF v.t = "string" /\ v.s \in NumeralStrings THEN Num(NumeralValue(v.s))
    ELSE Num(0)

\* v when the field was present, 0 when it was absent.
ZeroDefault(v, got) ==
    IF v = JSUndefined THEN "t" \in DOMAIN got /\ got = Num(0) ELSE got = v

\* C26: the record processCreditData returns is made of the report at index 0
\* alone: its score is a whole number when bureauScore is present and null when
\* absent, every account's creditLimit and currentBalance is the field's
\* number or 0, and totalAccounts, activeAccounts and outstandingBalance are
\* the summary's values or 0 when absent.
C26_CreditRecord ==
    (Finishes("processCreditData") /\ ~call.threw /\ ~NothingToNormalize)
        => LET creditData == Field(call.arg.creditReports[1], "creditReportData")
               score == Chain(creditData, <<"score", "bureauScore">>)
               details == FieldOr(Field(creditData, "creditAccount"),
                                  "creditAccountDetails", <<>>)
               summary == Chain(creditData, <<"creditAccount", "creditAccountSummary">>)
           IN  /\ IF score = JSUndefined THEN call.result.creditScore = JSNull
                  ELSE call.result.creditScore.t = "number"
                       /\ call.result.creditScore.nanos = 0
               /\ Len(call.result.accounts) = Len(details)
               /\ \A i \in 1..Len(details) :
                    /\ call.result.accounts[i].creditLimit =
                         Coerced(Field(details[i], "creditLimitAmount"))
                    /\ call.result.accounts[i].currentBalance =
                         Coerced(Field(details[i], "currentBalance"))
               /\ ZeroDefault(Chain(summary, <<"account", "creditAccountTotal">>),
                              call.result.totalAccounts)
               /\ ZeroDefault(Chain(summary, <<"account", "creditAccountActive">>),
                              call.result.activeAccounts)
               /\ ZeroDefault(Field(summary, "totalOutstandingBalance"),
                              call.result.outstandingBalance)

\* C28: while isAuthenticated is true, sessionId is the session identifier
\* sent in the login that succeeded: a step that ends with the flag true is a
\* login that returned for the sessionId it sent, or keeps the sessionId of an
\* authenticated client.
C28_AuthenticatedSessionIsLoggedIn ==
    [][isAuthenticated'
         => IF last'.op = "authenticate" /\ last'.outcome = "returned"
            THEN \E i \in DOMAIN last'.sent : last'.sent[i].session = sessionId'
            ELSE isAuthenticated /\ sessionId' = sessionId]_vars

\* C29: when initialize or authenticate throws, sessionId and isAuthenticated
\* have the values they had before the call.
C29_FailureLeavesSessionState ==
    (last.op \in {"initialize", "authenticate"} /\ last.outcome = "threw")
        => Fields(sessionId, isAuthenticated) = last.before

\* The requests a handler handed to the transport in the steps it has just run.
NewlySent(old, new) ==
    UNION {Range(new.log[i].sent) : i \in (Len(old.log) + 1)..Len(new.log)}

\* C30: a request being handled uses its own client only.  In every step of a
\* handler that has initialized, the login and the tool call carry the session
\* identifier that handler's own initialize stored and the phone number that
\* request supplied, both stay what they were, and no other request's handler
\* changes.
C30_RequestsUseOwnSession ==
    [][\A h \in HandlerIds :
         (handlers[h].pc \in {"initialize", "authenticate", "fetch"}
            /\ handlers'[h] # handlers[h])
         => /\ handlers'[h].phoneNumber = handlers[h].phoneNumber
            /\ handlers'[h].endpoint = handlers[h].endpoint
            /\ handlers[h].pc # "initialize"
                 => /\ handlers'[h].sessionId = handlers[h].sessionId
                    /\ \A request \in NewlySent(handlers[h], handlers'[h]) :
                         /\ request.session = handlers[h].sessionId
                         /\ request.method = "login"
                              => request.arg = handlers[h].phoneNumber
            /\ \A k \in HandlerIds \ {h} : handlers'[k] = handlers[k]]_vars

\* C30 witness: two requests are in progress with different session
\* identifiers and phone numbers; the second has made its tool call with its
\* own session while the first, logged in with its own, has yet to make its.
C30_Witness ==
    /\ handlers[1].pc = "fetch"
    /\ handlers[1].sessionId = "s1"
    /\ handlers[1].phoneNumber = "1111111111"
    /\ handlers[1].log[2].step = "authenticate"
    /\ handlers[1].log[2].sent[1].session = "s1"
    /\ handlers[1].log[2].sent[1].arg = "1111111111"
    /\ handlers[2].pc = "done"
    /\ handlers[2].sessionId = "s2"
    /\ handlers[2].phoneNumber = "9999999999"
    /\ Len(handlers[2].log) >= 3
    /\ handlers[2].log[2].sent[1].session = "s2"
    /\ handlers[2].log[2].sent[1].arg = "9999999999"
    /\ handlers[2].log[3].step = "callTool"
    /\ handlers[2].log[3].sent[1].session = "s2"
============================================================================
